---- MODULE Spec2Model ----
(***************************************************************************)
(* clawprint daemon: the reconnection supervisor (src/src/daemon.rs,       *)
(* run_daemon and run_connection) driving one gateway client               *)
(* (src/src/gateway.rs, GatewayClient::connect and GatewayClient::run)     *)
(* and recording into the ledger.                                          *)
(*                                                                         *)
(* Time is counted in milliseconds and passes in the sleeps of the backoff *)
(* wait (daemon.rs:94 and :117) and between the ticks of shutdown_check    *)
(* (daemon.rs:180); the handshake timeouts and the other interval timers   *)
(* of the select loops are nondeterministic events.                        *)
(***************************************************************************)
EXTENDS Integers, Sequences, FiniteSets, TLC

VARIABLES
    cfg,            \* Config: [hasToken, urlValid] (daemon.rs:23, :28, gateway.rs:108)
    pc,             \* position of run_daemon / run_connection / connect
    result,         \* result of run_daemon: "running", "ok", "err"
    backoff,        \* `backoff`, in seconds (daemon.rs:50)
    remaining,      \* sleep_until - now, in ms (daemon.rs:85/90, :108/113)
    sleepDur,       \* duration of the sleep in progress, in ms (daemon.rs:94, :117)
    shutdown,       \* the AtomicBool shutdown flag (daemon.rs:54)
    ret,            \* value run_connection returned: "none", "Signal", "Disconnected", "Err"
    arm,            \* match arm of daemon.rs:75-125 control is in: "none", "Disconnected", "Err"
    sent,           \* messages sent by connect() on this connection, in order
    hsFrames,       \* frames the handshake has read on this connection
    challenge,      \* nonce of the ConnectChallenge received, "" if none
    sessionId,      \* GatewayClient.session_id, "" for None
    connId,         \* value returned by connect() (daemon.rs:164), "" if none
    connErr,        \* why connect() failed on this attempt, "" if it did not
    hsLast,         \* the last frame receive_message took on this connection
    reader,         \* the spawned reader task: "none", "running", "finished", "aborted"
    rpc,            \* position of run(): "read", "sending", "pause"
    pendingMsg,     \* message run() is suspended sending (rpc = "sending")
    consecutive_errors,  \* gateway.rs:192
    frames,         \* frames ws_stream.next() has yielded to run() on this connection
    wsOpen,         \* the inbound stream has not ended yet
    chan,           \* the bounded mpsc channel (daemon.rs:170)
    appended,       \* events handed to append_event on this connection, in order
    ledger,         \* the Ledger as run_daemon uses it: [opened, meta, dirty, finalFlush,
                    \* counters, nextId, ids, lastSubmitted]
    attempts,       \* run_connection calls made while no connection had reached
                    \* Streaming yet (saturates at MaxAttempts), 0 once one has
    allFailed,      \* no connection has reached Streaming so far
    prevBackoff,    \* during a backoff wait: `backoff` when run_connection returned
    eventsAtSpawn,  \* during Streaming: total_events() when the connection was spawned
    sleepsAfterShutdown, \* backoff sleeps completed since the shutdown was raised
    checkIn,        \* during Streaming: ms until shutdown_check ticks next (daemon.rs:180)
    sinceCheck      \* during Streaming and the backoff wait: ms spent there since the
                    \* shutdown flag was last read

vars == <<cfg, pc, result, backoff, remaining, sleepDur, shutdown, ret, arm,
          sent, hsFrames, challenge, sessionId, connId, connErr, hsLast,
          reader, rpc, pendingMsg, consecutive_errors, frames, wsOpen,
          chan, appended, ledger,
          attempts, allFailed, prevBackoff, eventsAtSpawn, sleepsAfterShutdown,
          checkIn, sinceCheck>>

supVars   == <<pc, result, backoff, remaining, sleepDur, ret, arm>>
hsVars    == <<sent, hsFrames, challenge, sessionId, connId, connErr, hsLast>>
readerVars == <<reader, rpc, pendingMsg, consecutive_errors, frames, wsOpen>>
ghostVars == <<attempts, allFailed, prevBackoff, eventsAtSpawn>>
sigVars   == <<shutdown, sleepsAfterShutdown>>
timeVars  == <<checkIn, sinceCheck>>

----------------------------------------------------------------------------
(* Bounds of the model *)

\* failed run_connection calls counted by `attempts` (the loop itself is unbounded)
MaxAttempts == 9
\* frames the peer delivers during one handshake
MaxHsFrames == 3
\* frames the peer delivers to one run()
MaxFrames == 2
\* capacity of the mpsc channel, scaled down from 1000 (daemon.rs:170)
ChannelCapacity == 1
\* events the storage of the ledger has room for; append_event fails beyond
MaxEvents == 2

(* Program constants *)

InitialBackoffSecs == 1      \* daemon.rs:50, :80
MaxBackoffSecs == 60         \* daemon.rs:51
PollMs == 200                \* daemon.rs:94, :117
MaxConsecutiveErrors == 5    \* gateway.rs:226
SentinelEventId == 0         \* daemon.rs:198, EventId(0)
ShutdownCheckMs == 1000      \* daemon.rs:180, interval(Duration::from_secs(1))
FirstEventId == 1            \* the id the ledger gives its first event

Min(a, b) == IF a < b THEN a ELSE b

Nonces == {"abc", "xyz"}
SessionIds == {"s1", "s2"}
Token == "token"

\* GatewayMessage as it is serialised by send_message
Msg(type, arg) == [type |-> type, arg |-> arg]
ConnectMsg == Msg("connect", <<"observer">>)
AuthMsg(nonce) == Msg("auth", <<Token, nonce>>)
SubscribeChannels == <<"agent_events", "tool_calls", "outputs">>
SubscribeMsg == Msg("subscribe", SubscribeChannels)
PongMsg == Msg("pong", <<>>)

\* `(backoff * 2).min(max_backoff)`
NextBackoffUncapped(b) == b * 2
NextBackoff(b) == Min(b * 2, MaxBackoffSecs)

\* `remaining.min(Duration::from_millis(200))`
SleepStepBlind(rem) == rem
SleepStep(rem) == Min(rem, PollMs)

\* mpsc send / recv: FIFO
ChanPutTwice(ch, m) == Append(Append(ch, m), m)
ChanPut(ch, m) == Append(ch, m)

\* kind_name of an event
KindName(tag) ==
    CASE tag = "agent"    -> "AGENT_EVENT"
      [] tag = "chat"     -> "OUTPUT_CHUNK"
      [] tag = "tick"     -> "TICK"
      [] tag = "presence" -> "PRESENCE"
      [] tag = "shutdown" -> "SHUTDOWN"
      [] OTHER            -> "CUSTOM"

\* no frame read yet
NoFrame == [kind |-> "none", type |-> "", val |-> ""]

\* The ledger before Ledger::open. nextId is the id the ledger assigns next, ids the ids it has
\* assigned since, in order, lastSubmitted the id field of the event
\* append_event was last called with.
NoLedger == [opened |-> FALSE, meta |-> {}, dirty |-> FALSE, finalFlush |-> "none", counters |-> FALSE,
             nextId |-> FirstEventId, ids |-> <<>>, lastSubmitted |-> SentinelEventId]

\* Ledger::append_event succeeds: the ledger assigns the next id, whatever id
\* the event was submitted with, and holds the event for the next flush
AppendEvent(l, ev) ==
    [l EXCEPT !.ids = Append(@, l.nextId),
              !.nextId = @ + 1,
              !.dirty = TRUE,
              !.lastSubmitted = ev.id]

\* Ledger::append_event fails: nothing is stored, no id is used
AppendEventFails(l, ev) == [l EXCEPT !.lastSubmitted = ev.id]

\* Ledger::total_events
TotalEvents(l) == Len(l.ids)

\* `ledger.clone()` of the Arc handed to run_connection: the same Ledger
ConnLedgerReopened(l) == [l EXCEPT !.nextId = FirstEventId]
ConnLedger(l) == l

\* gateway_event_to_event(&run_id, EventId(0), gw_event, redact) with kind_name
GatewayEventToEvent(m) ==
    [id |-> SentinelEventId, kind |-> KindName(m.tag), seq |-> m.seq]

StartupPcs == {"open", "token", "start_meta"}
ConnectPcs == {"new", "connect_async", "send_connect", "recv1", "recv2", "subscribe", "spawn"}
BackoffPcs == {"bk_poll", "bk_sleep", "bk_after"}
FinalPcs   == {"flush", "stop_meta", "counters", "done"}

----------------------------------------------------------------------------
(* Initial state: run_daemon is called with some Config *)

Init ==
    /\ cfg \in [hasToken : BOOLEAN, urlValid : BOOLEAN]
    /\ pc = "open"
    /\ result = "running"
    /\ backoff = InitialBackoffSecs
    /\ remaining = 0
    /\ sleepDur = 0
    /\ shutdown = FALSE
    /\ ret = "none"
    /\ arm = "none"
    /\ sent = <<>>
    /\ hsFrames = 0
    /\ challenge = ""
    /\ sessionId = ""
    /\ connId = ""
    /\ connErr = ""
    /\ hsLast = NoFrame
    /\ reader = "none"
    /\ rpc = "read"
    /\ pendingMsg = <<>>
    /\ consecutive_errors = 0
    /\ frames = <<>>
    /\ wsOpen = TRUE
    /\ chan = <<>>
    /\ appended = <<>>
    /\ ledger = NoLedger
    /\ attempts = 0
    /\ allFailed = TRUE
    /\ prevBackoff = 0
    /\ eventsAtSpawn = 0
    /\ sleepsAfterShutdown = 0
    /\ checkIn = 0
    /\ sinceCheck = 0

----------------------------------------------------------------------------
(* run_daemon: startup *)

Fail ==
    /\ pc' = "done"
    /\ result' = "err"

\* Ledger::open(&ledger_path, config.batch_size)?
OpenLedger ==
    /\ pc = "open"
    /\ \E ok \in BOOLEAN :
         IF ok THEN /\ pc' = "token"
                    /\ ledger' = [ledger EXCEPT !.opened = TRUE]
                    /\ UNCHANGED result
               ELSE Fail /\ UNCHANGED ledger
    /\ UNCHANGED <<cfg, backoff, remaining, sleepDur, ret, arm, hsVars, readerVars,
                   chan, appended, ghostVars, sigVars>>
    /\ UNCHANGED timeVars

\* config.auth_token.clone().ok_or_else(..)?
CheckTokenSkipped ==
    /\ pc = "token"
    /\ pc' = "start_meta"
    /\ UNCHANGED <<cfg, result, backoff, remaining, sleepDur, ret, arm, hsVars, readerVars,
                   chan, appended, ledger, ghostVars, sigVars>>
    /\ UNCHANGED timeVars

CheckToken ==
    /\ pc = "token"
    /\ IF cfg.hasToken THEN pc' = "start_meta" /\ UNCHANGED result ELSE Fail
    /\ UNCHANGED <<cfg, backoff, remaining, sleepDur, ret, arm, hsVars, readerVars,
                   chan, appended, ledger, ghostVars, sigVars>>
    /\ UNCHANGED timeVars

\* set_meta("daemon_started_at")?; set_meta("gateway_url")?; backoff = 1s;
\* the shutdown flag is created and the ctrl_c task spawned
StartMeta ==
    /\ pc = "start_meta"
    /\ \E ok1, ok2 \in BOOLEAN :
         /\ ledger' = [ledger EXCEPT !.meta =
                          @ \cup (IF ok1 THEN {"daemon_started_at"} ELSE {})
                            \cup (IF ok1 /\ ok2 THEN {"gateway_url"} ELSE {})]
         /\ IF ok1 /\ ok2
              THEN pc' = "loop" /\ UNCHANGED result
              ELSE Fail
    /\ backoff' = InitialBackoffSecs
    /\ shutdown' = FALSE
    /\ UNCHANGED <<cfg, remaining, sleepDur, ret, arm, hsVars, readerVars,
                   chan, appended, ghostVars, sleepsAfterShutdown>>
    /\ UNCHANGED timeVars

\* the task of daemon.rs:56-59: ctrl_c arrives and the flag is stored
RaiseShutdown ==
    /\ pc \notin StartupPcs
    /\ pc # "done"
    /\ ~shutdown
    /\ shutdown' = TRUE
    /\ sleepsAfterShutdown' = 0
    /\ UNCHANGED <<cfg, supVars, hsVars, readerVars, chan, appended, ledger, ghostVars>>
    /\ UNCHANGED timeVars

----------------------------------------------------------------------------
(* run_daemon: the reconnect loop *)

\* `if shutdown.load() { break; }` then the call of run_connection
LoopTop ==
    /\ pc = "loop"
    /\ IF shutdown
         THEN /\ pc' = "flush"
              /\ UNCHANGED <<hsVars, attempts, ret, ledger>>
         ELSE /\ pc' = "new"
              /\ attempts' = IF allFailed THEN Min(attempts + 1, MaxAttempts) ELSE 0
              /\ ret' = "none"
              /\ sent' = <<>>
              /\ hsFrames' = 0
              /\ challenge' = ""
              /\ sessionId' = ""
              /\ connId' = ""
              /\ connErr' = ""
              /\ hsLast' = NoFrame
              /\ ledger' = ConnLedger(ledger)
    /\ UNCHANGED <<cfg, result, backoff, remaining, sleepDur, arm, readerVars,
                   chan, appended, allFailed, prevBackoff, eventsAtSpawn, sigVars>>
    /\ UNCHANGED timeVars

\* run_connection returns Err(e) through a `?`
ConnFail(why) ==
    /\ connErr' = why
    /\ ret' = "Err"
    /\ pc' = "match"

\* GatewayClient::new: Url::parse(url)?
NewClient ==
    /\ pc = "new"
    /\ IF cfg.urlValid
         THEN pc' = "connect_async" /\ UNCHANGED <<ret, connErr>>
         ELSE ConnFail("url")
    /\ UNCHANGED <<cfg, result, backoff, remaining, sleepDur, arm,
                   sent, hsFrames, challenge, sessionId, connId, hsLast, readerVars,
                   chan, appended, ledger, ghostVars, sigVars>>
    /\ UNCHANGED timeVars

----------------------------------------------------------------------------
(* GatewayClient::connect *)

Frame(kind, type, val) == [kind |-> kind, type |-> type, val |-> val]

\* what ws.next() can yield to receive_message during the handshake
HsFrameSet ==
    {Frame("text", "challenge", n) : n \in Nonces}
      \cup {Frame("text", "connected", s) : s \in SessionIds}
      \cup {Frame("text", "error", ""), Frame("text", "tick", "")}
      \cup {Frame(k, "", "") : k \in {"bad", "ping", "other", "err", "eos"}}

\* connect_async(&self.url).await?
ConnectAsync ==
    /\ pc = "connect_async"
    /\ \E ok \in BOOLEAN :
         IF ok THEN pc' = "send_connect" /\ UNCHANGED <<ret, connErr>>
               ELSE ConnFail("transport")
    /\ UNCHANGED <<cfg, result, backoff, remaining, sleepDur, arm,
                   sent, hsFrames, challenge, sessionId, connId, hsLast, readerVars,
                   chan, appended, ledger, ghostVars, sigVars>>
    /\ UNCHANGED timeVars

\* self.send_message(connect_msg).await?
SendConnect ==
    /\ pc = "send_connect"
    /\ \E ok \in BOOLEAN :
         IF ok THEN /\ sent' = Append(sent, ConnectMsg)
                    /\ pc' = "recv1"
                    /\ UNCHANGED <<ret, connErr>>
               ELSE ConnFail("transport") /\ UNCHANGED sent
    /\ UNCHANGED <<cfg, result, backoff, remaining, sleepDur, arm,
                   hsFrames, challenge, sessionId, connId, hsLast, readerVars,
                   chan, appended, ledger, ghostVars, sigVars>>
    /\ UNCHANGED timeVars

\* timeout(Duration::from_secs(5), self.receive_message()) elapses
HsTimeout ==
    /\ pc \in {"recv1", "recv2"}
    /\ ConnFail(IF pc = "recv1" THEN "timeout1" ELSE "timeout2")
    /\ UNCHANGED <<cfg, result, backoff, remaining, sleepDur, arm,
                   sent, hsFrames, challenge, sessionId, connId, hsLast, readerVars,
                   chan, appended, ledger, ghostVars, sigVars>>
    /\ UNCHANGED timeVars

\* what connect() sends on receiving ConnectChallenge: nothing
\* ("For MVP: accept any challenge without auth")
ChallengeReply(nonce) == <<>>

\* `match response` on the first reply
OnFirstReply(f) ==
    CASE f.type = "challenge" ->
           /\ challenge' = f.val
           /\ sent' = sent \o ChallengeReply(f.val)
           /\ pc' = "recv2"
           /\ UNCHANGED <<sessionId, ret, connErr>>
      [] f.type = "connected" ->
           /\ sessionId' = f.val
           /\ pc' = "subscribe"
           /\ UNCHANGED <<challenge, sent, ret, connErr>>
      [] f.type = "error" ->
           /\ ConnFail("error")
           /\ UNCHANGED <<challenge, sent, sessionId>>
      [] OTHER ->
           /\ ConnFail("unexpected1")
           /\ UNCHANGED <<challenge, sent, sessionId>>

\* `match response2` on the reply after the challenge
OnSecondReply(f) ==
    IF f.type = "connected"
      THEN /\ sessionId' = f.val
           /\ pc' = "subscribe"
           /\ UNCHANGED <<challenge, sent, ret, connErr>>
      ELSE /\ ConnFail("unexpected2")
           /\ UNCHANGED <<challenge, sent, sessionId>>

\* receive_message on a text frame that does not parse: `serde_json::from_str(&text)?`
HsOnMalformed ==
    /\ ConnFail("parse")
    /\ UNCHANGED <<challenge, sent, sessionId>>

\* receive_message takes one frame from the stream
HsFrame ==
    /\ pc \in {"recv1", "recv2"}
    /\ hsFrames < MaxHsFrames
    /\ hsFrames' = hsFrames + 1
    /\ \E f \in HsFrameSet :
         /\ hsLast' = f
         /\ CASE f.kind = "text" ->
                IF pc = "recv1" THEN OnFirstReply(f) ELSE OnSecondReply(f)
           [] f.kind = "bad" -> HsOnMalformed
           [] f.kind = "ping" ->
                \E ok \in BOOLEAN :
                  IF ok THEN /\ sent' = Append(sent, PongMsg)
                             /\ UNCHANGED <<pc, challenge, sessionId, ret, connErr>>
                        ELSE /\ ConnFail("transport")
                             /\ UNCHANGED <<challenge, sent, sessionId>>
           [] f.kind = "other" ->
                UNCHANGED <<pc, challenge, sent, sessionId, ret, connErr>>
           [] f.kind = "err" ->
                /\ ConnFail("transport")
                /\ UNCHANGED <<challenge, sent, sessionId>>
           [] f.kind = "eos" ->
                /\ ConnFail("closed")
                /\ UNCHANGED <<challenge, sent, sessionId>>
    /\ UNCHANGED <<cfg, result, backoff, remaining, sleepDur, arm, connId, readerVars,
                   chan, appended, ledger, ghostVars, sigVars>>
    /\ UNCHANGED timeVars

\* send_message(Subscribe{..}).await?; Ok(session_id)
SubscribeNotSent ==
    /\ pc = "subscribe"
    /\ \E ok \in BOOLEAN :
         IF ok THEN /\ connId' = sessionId
                    /\ pc' = "spawn"
                    /\ UNCHANGED <<sent, ret, connErr>>
               ELSE /\ ConnFail("transport")
                    /\ UNCHANGED <<sent, connId>>
    /\ UNCHANGED <<cfg, result, backoff, remaining, sleepDur, arm,
                   hsFrames, challenge, sessionId, hsLast, readerVars,
                   chan, appended, ledger, ghostVars, sigVars>>
    /\ UNCHANGED timeVars

Subscribe ==
    /\ pc = "subscribe"
    /\ \E ok \in BOOLEAN :
         IF ok THEN /\ sent' = Append(sent, SubscribeMsg)
                    /\ connId' = sessionId
                    /\ pc' = "spawn"
                    /\ UNCHANGED <<ret, connErr>>
               ELSE /\ ConnFail("transport")
                    /\ UNCHANGED <<sent, connId>>
    /\ UNCHANGED <<cfg, result, backoff, remaining, sleepDur, arm,
                   hsFrames, challenge, sessionId, hsLast, readerVars,
                   chan, appended, ledger, ghostVars, sigVars>>
    /\ UNCHANGED timeVars

----------------------------------------------------------------------------
(* run_connection: Streaming *)

\* conn_id is logged, the channel created, the client moved into the spawned reader
\* task, the two intervals created; the record of the handshake is dropped here
Spawn ==
    /\ pc = "spawn"
    /\ pc' = "select"
    /\ chan' = <<>>
    /\ reader' = "running"
    /\ rpc' = "read"
    /\ pendingMsg' = <<>>
    /\ consecutive_errors' = 0
    /\ frames' = <<>>
    /\ wsOpen' = TRUE
    /\ appended' = <<>>
    /\ allFailed' = FALSE
    /\ sent' = <<>>
    /\ hsFrames' = 0
    /\ challenge' = ""
    /\ sessionId' = ""
    /\ connId' = ""
    /\ hsLast' = NoFrame
    /\ attempts' = 0
    /\ eventsAtSpawn' = TotalEvents(ledger)
    /\ checkIn' = 0
    /\ sinceCheck' = 0
    /\ UNCHANGED <<cfg, result, backoff, remaining, sleepDur, ret, arm,
                   connErr, ledger, prevBackoff, sigVars>>

\* every Sender is dropped once the reader task has ended
TxDropped == reader \in {"finished", "aborted"}

\* `msg = event_rx.recv()` yields Some(gw_event): translate and append_event;
\* an error of append_event is only logged
SupRecvSomeStopsOnError ==
    /\ pc = "select"
    /\ chan # <<>>
    /\ appended' = Append(appended, Head(chan))
    /\ chan' = Tail(chan)
    /\ \E ok \in BOOLEAN :
         IF ok /\ TotalEvents(ledger) < MaxEvents
           THEN /\ ledger' = AppendEvent(ledger, GatewayEventToEvent(Head(chan)))
                /\ UNCHANGED <<pc, ret>>
           ELSE /\ ledger' = AppendEventFails(ledger, GatewayEventToEvent(Head(chan)))
                /\ pc' = "abort"
                /\ ret' = "Disconnected"
    /\ UNCHANGED <<cfg, result, backoff, remaining, sleepDur, arm,
                   hsVars, readerVars, ghostVars, sigVars>>
    /\ UNCHANGED timeVars

SupRecvSome ==
    /\ pc = "select"
    /\ chan # <<>>
    /\ appended' = Append(appended, Head(chan))
    /\ chan' = Tail(chan)
    /\ \E ok \in BOOLEAN :
         ledger' = IF ok /\ TotalEvents(ledger) < MaxEvents
                     THEN AppendEvent(ledger, GatewayEventToEvent(Head(chan)))
                     ELSE AppendEventFails(ledger, GatewayEventToEvent(Head(chan)))
    /\ UNCHANGED <<cfg, supVars, hsVars, readerVars, ghostVars, sigVars>>
    /\ UNCHANGED timeVars

\* `msg = event_rx.recv()` yields None: break ShutdownReason::Disconnected
SupRecvNoneEarly ==
    /\ pc = "select"
    /\ TxDropped
    /\ ret' = "Disconnected"
    /\ pc' = "abort"
    /\ UNCHANGED <<cfg, result, backoff, remaining, sleepDur, arm, hsVars, readerVars,
                   chan, appended, ledger, ghostVars, sigVars>>
    /\ UNCHANGED timeVars

SupRecvNone ==
    /\ pc = "select"
    /\ chan = <<>>
    /\ TxDropped
    /\ ret' = "Disconnected"
    /\ pc' = "abort"
    /\ UNCHANGED <<cfg, result, backoff, remaining, sleepDur, arm, hsVars, readerVars,
                   chan, appended, ledger, ghostVars, sigVars>>
    /\ UNCHANGED timeVars

\* `_ = flush_interval.tick()`: flush, an error is only logged
SupFlushTick ==
    /\ pc = "select"
    /\ \E ok \in BOOLEAN :
         ledger' = [ledger EXCEPT !.dirty = IF ok THEN FALSE ELSE @]
    /\ UNCHANGED <<cfg, supVars, hsVars, readerVars, chan, appended, ghostVars, sigVars>>
    /\ UNCHANGED timeVars

\* `_ = shutdown_check.tick()`: break ShutdownReason::Signal if the flag is set
SupShutdownCheck ==
    /\ pc = "select"
    /\ checkIn = 0
    /\ checkIn' = ShutdownCheckMs
    /\ sinceCheck' = 0
    /\ IF shutdown
         THEN ret' = "Signal" /\ pc' = "abort"
         ELSE UNCHANGED <<ret, pc>>
    /\ UNCHANGED <<cfg, result, backoff, remaining, sleepDur, arm, hsVars, readerVars,
                   chan, appended, ledger, ghostVars, sigVars>>

\* the time up to the next tick of shutdown_check passes
StreamTimePasses ==
    /\ pc = "select"
    /\ checkIn > 0
    /\ sinceCheck' = sinceCheck + checkIn
    /\ checkIn' = 0
    /\ UNCHANGED <<cfg, supVars, hsVars, readerVars, chan, appended, ledger,
                   ghostVars, sigVars>>

\* handle.abort(); Ok(result): the receiver and the histories of this connection
\* are dropped with the call frame
AbortMissing ==
    /\ pc = "abort"
    /\ pc' = "match"
    /\ chan' = <<>>
    /\ appended' = <<>>
    /\ eventsAtSpawn' = 0
    /\ checkIn' = 0
    /\ sinceCheck' = 0
    /\ UNCHANGED <<cfg, result, backoff, remaining, sleepDur, ret, arm, hsVars,
                   reader, rpc, pendingMsg, consecutive_errors, frames, wsOpen,
                   ledger, attempts, allFailed, prevBackoff, sigVars>>

Abort ==
    /\ pc = "abort"
    /\ pc' = "match"
    /\ reader' = IF reader = "running" THEN "aborted" ELSE reader
    /\ rpc' = "read"
    /\ pendingMsg' = <<>>
    /\ consecutive_errors' = 0
    /\ frames' = <<>>
    /\ wsOpen' = TRUE
    /\ chan' = <<>>
    /\ appended' = <<>>
    /\ eventsAtSpawn' = 0
    /\ checkIn' = 0
    /\ sinceCheck' = 0
    /\ UNCHANGED <<cfg, result, backoff, remaining, sleepDur, ret, arm, hsVars,
                   ledger, attempts, allFailed, prevBackoff, sigVars>>

----------------------------------------------------------------------------
(* GatewayClient::run, the reader task *)

ValidTags == {"tick"}

\* what ws_stream.next() can yield to run() other than an error: a text frame
\* that parses, one that does not, a Ping, a Close, the end of the stream. (A
\* Binary, Pong or raw frame takes the `_ => {}` arm as the end of the stream
\* does, and changes nothing.)
RunFrameSet ==
    {Frame("text", t, "") : t \in ValidTags}
      \cup {Frame(k, "", "") : k \in {"bad", "ping", "close", "eos"}}

\* the GatewayMessage a text frame parses to, tagged with the frame's position
Parsed(f, i) == [tag |-> f.type, seq |-> i]

\* the Receiver lives from the spawn to the return of run_connection
RxOpen == pc \in {"select", "abort"}

ReaderEnds == reader' = "finished"

\* a text frame that parses: output_tx.send(gateway_msg).await
ReaderOnValidDrops(m) ==
    /\ consecutive_errors' = 0
    /\ IF ~RxOpen
         THEN ReaderEnds /\ UNCHANGED <<rpc, pendingMsg, chan>>
         ELSE IF Len(chan) >= ChannelCapacity
                THEN UNCHANGED <<reader, rpc, pendingMsg, chan>>
                ELSE /\ chan' = ChanPut(chan, m)
                     /\ UNCHANGED <<reader, rpc, pendingMsg>>

ReaderOnValid(m) ==
    /\ consecutive_errors' = 0
    /\ IF ~RxOpen
         THEN ReaderEnds /\ UNCHANGED <<rpc, pendingMsg, chan>>
         ELSE IF Len(chan) >= ChannelCapacity
                THEN /\ rpc' = "sending"
                     /\ pendingMsg' = m
                     /\ UNCHANGED <<reader, chan>>
                ELSE /\ chan' = ChanPut(chan, m)
                     /\ UNCHANGED <<reader, rpc, pendingMsg>>

\* a text frame that does not parse: warn and go on (gateway.rs:210-213)
ReaderOnMalformedForwards(m) ==
    /\ consecutive_errors' = 0
    /\ chan' = ChanPut(chan, m)
    /\ UNCHANGED <<reader, rpc, pendingMsg>>

ReaderOnMalformed(m) ==
    /\ consecutive_errors' = 0
    /\ UNCHANGED <<reader, rpc, pendingMsg, chan>>

\* Some(Err(e)): count, fail above the threshold, else sleep 1s
ReaderOnError ==
    /\ consecutive_errors' = consecutive_errors + 1
    /\ IF consecutive_errors + 1 > MaxConsecutiveErrors
         THEN ReaderEnds /\ UNCHANGED rpc
         ELSE rpc' = "pause" /\ UNCHANGED reader
    /\ UNCHANGED <<pendingMsg, chan>>

\* `msg = ws_stream.next()` yields a frame or the end of the stream
ReaderRead ==
    /\ reader = "running"
    /\ rpc = "read"
    /\ ~wsOpen \/ Len(frames) < MaxFrames
    /\ \E f \in (IF wsOpen THEN RunFrameSet ELSE {Frame("eos", "", "")}) :
         /\ frames' = IF wsOpen THEN Append(frames, f) ELSE frames
         /\ wsOpen' = (wsOpen /\ f.kind # "eos")
         /\ CASE f.kind = "text" -> ReaderOnValid(Parsed(f, Len(frames) + 1))
              [] f.kind = "bad" -> ReaderOnMalformed(Parsed(f, Len(frames) + 1))
              [] f.kind = "ping" ->
                   \E ok \in BOOLEAN :
                     /\ IF ok THEN UNCHANGED reader ELSE ReaderEnds
                     /\ UNCHANGED <<rpc, pendingMsg, consecutive_errors, chan>>
              [] f.kind = "close" ->
                   /\ ReaderEnds
                   /\ UNCHANGED <<rpc, pendingMsg, consecutive_errors, chan>>
              [] OTHER ->
                   UNCHANGED <<reader, rpc, pendingMsg, consecutive_errors, chan>>
    /\ UNCHANGED <<cfg, supVars, hsVars, appended, ledger, ghostVars, sigVars>>
    /\ UNCHANGED timeVars

\* `msg = ws_stream.next()` yields Some(Err(e)): no frame is read
ReaderReadError ==
    /\ reader = "running"
    /\ rpc = "read"
    /\ wsOpen
    /\ ReaderOnError
    /\ UNCHANGED <<cfg, supVars, hsVars, frames, wsOpen, appended, ledger,
                   ghostVars, sigVars, timeVars>>

\* the suspended send completes once the channel has room
ReaderSendCompletes ==
    /\ reader = "running"
    /\ rpc = "sending"
    /\ IF ~RxOpen
         THEN ReaderEnds /\ UNCHANGED chan
         ELSE /\ Len(chan) < ChannelCapacity
              /\ chan' = ChanPut(chan, pendingMsg)
              /\ UNCHANGED reader
    /\ rpc' = "read"
    /\ pendingMsg' = <<>>
    /\ UNCHANGED <<cfg, supVars, hsVars, consecutive_errors, frames, wsOpen,
                   appended, ledger, ghostVars, sigVars>>
    /\ UNCHANGED timeVars

\* tokio::time::sleep(Duration::from_secs(1)) after a read error is over
ReaderPauseOver ==
    /\ reader = "running"
    /\ rpc = "pause"
    /\ rpc' = "read"
    /\ UNCHANGED <<cfg, supVars, hsVars, reader, pendingMsg, consecutive_errors, frames,
                   wsOpen, chan, appended, ledger, ghostVars, sigVars>>
    /\ UNCHANGED timeVars

\* `_ = ping_interval.tick()`: send a Ping, break if the send fails
ReaderPing ==
    /\ reader = "running"
    /\ rpc = "read"
    /\ \E ok \in BOOLEAN :
         IF ok THEN UNCHANGED reader ELSE ReaderEnds
    /\ UNCHANGED <<cfg, supVars, hsVars, rpc, pendingMsg, consecutive_errors, frames,
                   wsOpen, chan, appended, ledger, ghostVars, sigVars>>
    /\ UNCHANGED timeVars

----------------------------------------------------------------------------
(* run_daemon: the match on run_connection's result, and the backoff wait *)

\* sleep_until = now + backoff
StartWait(b) ==
    /\ remaining' = b * 1000
    /\ sleepDur' = 0
    /\ pc' = "bk_poll"

\* the failed client and the error `e` are dropped once the error is logged
DropClient ==
    /\ sent' = <<>>
    /\ hsFrames' = 0
    /\ challenge' = ""
    /\ sessionId' = ""
    /\ connId' = ""
    /\ connErr' = ""
    /\ hsLast' = NoFrame

\* Ok(ShutdownReason::Signal) => break
ArmSignal ==
    /\ pc = "match"
    /\ ret = "Signal"
    /\ pc' = "flush"
    /\ UNCHANGED <<cfg, result, backoff, remaining, sleepDur, ret, arm, hsVars, readerVars,
                   chan, appended, ledger, ghostVars, sigVars>>
    /\ UNCHANGED timeVars

\* Ok(ShutdownReason::Disconnected) => backoff = 1s, then wait
ArmDisconnected ==
    /\ pc = "match"
    /\ ret = "Disconnected"
    /\ backoff' = InitialBackoffSecs
    /\ arm' = "Disconnected"
    /\ StartWait(InitialBackoffSecs)
    /\ prevBackoff' = backoff
    /\ UNCHANGED <<cfg, result, ret, hsVars, readerVars,
                   chan, appended, ledger, attempts, allFailed, eventsAtSpawn, sigVars>>
    /\ UNCHANGED timeVars

\* Err(e) => wait with the backoff as it is
ArmErrResets ==
    /\ pc = "match"
    /\ ret = "Err"
    /\ backoff' = InitialBackoffSecs
    /\ arm' = "Err"
    /\ StartWait(InitialBackoffSecs)
    /\ DropClient
    /\ prevBackoff' = backoff
    /\ UNCHANGED <<cfg, result, ret, readerVars,
                   chan, appended, ledger, attempts, allFailed, eventsAtSpawn, sigVars>>
    /\ UNCHANGED timeVars

ArmErr ==
    /\ pc = "match"
    /\ ret = "Err"
    /\ arm' = "Err"
    /\ StartWait(backoff)
    /\ DropClient
    /\ prevBackoff' = backoff
    /\ UNCHANGED <<cfg, result, backoff, ret, readerVars,
                   chan, appended, ledger, attempts, allFailed, eventsAtSpawn, sigVars>>
    /\ UNCHANGED timeVars

\* one turn of the wait loop up to the sleep: the flag and `remaining` are read
BackoffPollIgnoresShutdown ==
    /\ pc = "bk_poll"
    /\ sinceCheck' = 0
    /\ UNCHANGED checkIn
    /\ IF remaining = 0
         THEN pc' = "bk_after" /\ UNCHANGED sleepDur
         ELSE pc' = "bk_sleep" /\ sleepDur' = SleepStep(remaining)
    /\ UNCHANGED <<cfg, result, backoff, remaining, ret, arm, hsVars, readerVars,
                   chan, appended, ledger, ghostVars, sigVars>>

BackoffPoll ==
    /\ pc = "bk_poll"
    /\ sinceCheck' = 0
    /\ UNCHANGED checkIn
    /\ IF shutdown \/ remaining = 0
         THEN pc' = "bk_after" /\ UNCHANGED sleepDur
         ELSE pc' = "bk_sleep" /\ sleepDur' = SleepStep(remaining)
    /\ UNCHANGED <<cfg, result, backoff, remaining, ret, arm, hsVars, readerVars,
                   chan, appended, ledger, ghostVars, sigVars>>

\* tokio::time::sleep(..) is over
BackoffSleep ==
    /\ pc = "bk_sleep"
    /\ remaining' = remaining - sleepDur
    /\ sleepDur' = 0
    /\ pc' = "bk_poll"
    /\ sleepsAfterShutdown' = IF shutdown THEN sleepsAfterShutdown + 1 ELSE 0
    /\ sinceCheck' = sinceCheck + sleepDur
    /\ UNCHANGED checkIn
    /\ UNCHANGED <<cfg, result, backoff, ret, arm, hsVars, readerVars,
                   chan, appended, ledger, ghostVars, shutdown>>

\* after the wait: break on shutdown, else double the backoff and loop
BackoffAfterGivesUp ==
    /\ pc = "bk_after"
    /\ sinceCheck' = 0
    /\ UNCHANGED checkIn
    /\ pc' = "flush"
    /\ UNCHANGED <<cfg, result, backoff, remaining, sleepDur, ret, arm, hsVars, readerVars,
                   chan, appended, ledger, ghostVars, sigVars>>

BackoffAfter ==
    /\ pc = "bk_after"
    /\ sinceCheck' = 0
    /\ UNCHANGED checkIn
    /\ IF shutdown
         THEN pc' = "flush" /\ UNCHANGED <<backoff, arm, remaining, prevBackoff>>
         ELSE /\ backoff' = NextBackoff(backoff)
              /\ arm' = "none"
              /\ remaining' = 0
              /\ prevBackoff' = 0
              /\ pc' = "loop"
    /\ UNCHANGED <<cfg, result, sleepDur, ret, hsVars, readerVars,
                   chan, appended, ledger, attempts, allFailed, eventsAtSpawn, sigVars>>

----------------------------------------------------------------------------
(* run_daemon: graceful shutdown *)

\* l.flush()?
FinalFlushIgnoresError ==
    /\ pc = "flush"
    /\ \E ok \in BOOLEAN :
         /\ ledger' = [ledger EXCEPT !.finalFlush = IF ok THEN "ok" ELSE "err",
                                     !.dirty = IF ok THEN FALSE ELSE @]
         /\ pc' = "stop_meta" /\ UNCHANGED result
    /\ UNCHANGED <<cfg, backoff, remaining, sleepDur, ret, arm, hsVars, readerVars,
                   chan, appended, ghostVars, sigVars>>
    /\ UNCHANGED timeVars

FinalFlush ==
    /\ pc = "flush"
    /\ \E ok \in BOOLEAN :
         /\ ledger' = [ledger EXCEPT !.finalFlush = IF ok THEN "ok" ELSE "err",
                                     !.dirty = IF ok THEN FALSE ELSE @]
         /\ IF ok THEN pc' = "stop_meta" /\ UNCHANGED result ELSE Fail
    /\ UNCHANGED <<cfg, backoff, remaining, sleepDur, ret, arm, hsVars, readerVars,
                   chan, appended, ghostVars, sigVars>>
    /\ UNCHANGED timeVars

\* l.set_meta("daemon_stopped_at", ..)?
StopMeta ==
    /\ pc = "stop_meta"
    /\ \E ok \in BOOLEAN :
         IF ok THEN /\ ledger' = [ledger EXCEPT !.meta = @ \cup {"daemon_stopped_at"}]
                    /\ pc' = "counters"
                    /\ UNCHANGED result
               ELSE Fail /\ UNCHANGED ledger
    /\ UNCHANGED <<cfg, backoff, remaining, sleepDur, ret, arm, hsVars, readerVars,
                   chan, appended, ghostVars, sigVars>>
    /\ UNCHANGED timeVars

\* total_events(), storage_size_bytes().unwrap_or(0), the report, Ok(())
Counters ==
    /\ pc = "counters"
    /\ ledger' = [ledger EXCEPT !.counters = TRUE]
    /\ pc' = "done"
    /\ result' = "ok"
    /\ UNCHANGED <<cfg, backoff, remaining, sleepDur, ret, arm, hsVars, readerVars,
                   chan, appended, ghostVars, sigVars>>
    /\ UNCHANGED timeVars

----------------------------------------------------------------------------

Next ==
    \/ OpenLedger \/ CheckToken \/ StartMeta \/ RaiseShutdown
    \/ LoopTop \/ NewClient \/ ConnectAsync \/ SendConnect
    \/ HsTimeout \/ HsFrame \/ Subscribe
    \/ Spawn \/ SupRecvSome \/ SupRecvNone \/ SupFlushTick \/ SupShutdownCheck
    \/ StreamTimePasses \/ Abort
    \/ ReaderRead \/ ReaderReadError \/ ReaderSendCompletes \/ ReaderPauseOver \/ ReaderPing
    \/ ArmSignal \/ ArmDisconnected \/ ArmErr
    \/ BackoffPoll \/ BackoffSleep \/ BackoffAfter
    \/ FinalFlush \/ StopMeta \/ Counters

Spec == Init /\ [][Next]_vars

\* the steps the run_daemon task takes by itself, whatever the peer and the
\* reader task do. connect_async is not among them: it ends when the peer
\* answers the upgrade request or the transport fails, and the code puts no
\* timeout on it (gateway.rs:122).
SupervisorStep ==
    \/ OpenLedger \/ CheckToken \/ StartMeta
    \/ LoopTop \/ NewClient \/ SendConnect \/ Subscribe
    \/ Spawn \/ Abort
    \/ ArmSignal \/ ArmDisconnected \/ ArmErr
    \/ BackoffPoll \/ BackoffSleep \/ BackoffAfter
    \/ FinalFlush \/ StopMeta \/ Counters

\* Fair scheduling: the run_daemon task is run when it can take a step, a
\* receive wait of the handshake ends by its 5s timeout if by nothing else, time
\* passes, and the select loop takes the shutdown_check tick when it is due.
FairSpec ==
    /\ Spec
    /\ WF_vars(SupervisorStep)
    /\ WF_vars(HsTimeout)
    /\ WF_vars(StreamTimePasses)
    /\ WF_vars(SupShutdownCheck)

\* Fair scheduling in which, besides, every connect_async ends (with a
\* connection or an error), and the flush timer of the select loop fires with
\* a flush that succeeds at some time if Streaming with something to flush
\* lasts or keeps coming back.
FlushFairSpec ==
    /\ FairSpec
    /\ WF_vars(ConnectAsync)
    /\ SF_vars(SupFlushTick)


----------------------------------------------------------------------------
(* Properties *)

IsPrefix(s, t) == Len(s) <= Len(t) /\ \A i \in 1..Len(s) : s[i] = t[i]

RECURSIVE ValidFrom(_, _)
\* the valid messages among the frames fs[i..], each with its position
ValidFrom(fs, i) ==
    IF i > Len(fs) THEN <<>>
    ELSE (IF fs[i].kind = "text" THEN <<[tag |-> fs[i].type, seq |-> i]>> ELSE <<>>)
           \o ValidFrom(fs, i + 1)

\* the valid messages read from the network on this connection, in receive order
Received == ValidFrom(frames, 1)

\* the n-th wait of the sequence 1,2,4,8,16,32,60,60,...
ExpectedWait(n) == IF n <= 6 THEN 2 ^ (n - 1) ELSE 60

\* C1: while every connection attempt so far has failed before Streaming, the
\* wait after the n-th attempt is the n-th term of 1,2,4,8,16,32,60,60,...
\* seconds, the wait is left before its end only on shutdown, and the backoff
\* is between 1s and 60s in every reachable state.
C1_BackoffSequence ==
    /\ backoff >= 1
    /\ backoff <= 60
    /\ (pc \in BackoffPcs /\ allFailed /\ attempts < MaxAttempts)
         => /\ backoff = ExpectedWait(attempts)
            /\ remaining <= backoff * 1000
    /\ (pc = "bk_after") => (shutdown \/ remaining = 0)

\* the 8th wait in a row is 60s and has run to its end
C1_Witness ==
    /\ pc = "bk_after"
    /\ allFailed
    /\ attempts = 8
    /\ backoff = 60
    /\ remaining = 0
    /\ ~shutdown

\* C2: the backoff is lowered only by the Disconnected arm, which is reached only
\* from Streaming, and it is then 1s for the whole wait that follows; a
\* connection attempt that failed with Err waits with the backoff unchanged.
C2_ResetOnlyAfterStreaming ==
    [][ /\ (backoff' < backoff) => (pc = "match" /\ ret = "Disconnected" /\ backoff' = 1)
        /\ (ret' = "Disconnected" /\ ret # "Disconnected") => pc = "select"
        /\ (pc = "match" /\ ret = "Err") => backoff' = backoff
        /\ (pc' \in BackoffPcs /\ arm' = "Disconnected")
             => (backoff' = 1 /\ (pc = "match" => remaining' = 1000))
        /\ (pc' \in BackoffPcs /\ arm' = "Err") => backoff' = prevBackoff'
      ]_vars

\* a connection that had reached Streaming ended while the backoff was 60s, and
\* the wait that follows is 1s
C2_Witness ==
    /\ pc = "bk_poll"
    /\ arm = "Disconnected"
    /\ prevBackoff = 60
    /\ backoff = 1
    /\ remaining = 1000

\* C3: once the shutdown flag is set during a backoff wait, the supervisor
\* completes at most the one sleep in progress (at most 200 ms), leaves the
\* wait at its next poll, and goes to the final flush without another
\* connection attempt.
C3_ShutdownInterruptsBackoff ==
    [][ /\ sleepDur' <= PollMs
        /\ PollMs < 1000
        /\ sleepsAfterShutdown' <= 1
        /\ (shutdown /\ pc = "bk_poll") => pc' = "bk_after"
        /\ (shutdown /\ pc = "bk_after") => pc' = "flush"
        /\ (shutdown /\ pc \in BackoffPcs) => pc' \in (BackoffPcs \cup {"flush"})
        /\ (shutdown /\ pc \in FinalPcs) => pc' \in FinalPcs
      ]_vars

\* shutdown arrived during a sleep of a 60s wait; the supervisor is at the final
\* flush with more than 59s of the wait left
C3_Witness ==
    /\ pc = "flush"
    /\ arm = "Err"
    /\ backoff = 60
    /\ remaining > 59000
    /\ sleepsAfterShutdown = 1
    /\ shutdown

WithoutPongs(s) == SelectSeq(s, LAMBDA m : m.type # "pong")

\* C4: on the challenge path connect() has sent Auth{token, nonce} with the
\* nonce of the challenge before it waits for Connected, and when it returns
\* the session id its messages were Connect, Auth, Subscribe in this order.
C4_AuthSentOnChallenge ==
    /\ (pc = "recv2") => (\E i \in 1..Len(sent) : sent[i] = AuthMsg(challenge))
    /\ (pc = "spawn" /\ challenge # "")
         => /\ connId = sessionId
            /\ WithoutPongs(sent) = <<ConnectMsg, AuthMsg(challenge), SubscribeMsg>>

\* C5: reading a malformed text frame in run() changes neither the channel, the
\* appends, the reader task nor the supervisor; no appended or forwarded message
\* stems from a malformed frame; and once the frames <<malformed, Tick>> are
\* consumed exactly one event, the Tick, has been appended.
C5_MalformedThenTick ==
    [][ /\ (Len(frames') = Len(frames) + 1 /\ frames'[Len(frames')].kind = "bad")
             => /\ chan' = chan
                /\ appended' = appended
                /\ reader' = reader
                /\ rpc' = rpc
                /\ <<pc', ret', result', backoff'>> = <<pc, ret, result, backoff>>
        /\ \A i \in 1..Len(appended') : frames'[appended'[i].seq].kind = "text"
        /\ \A i \in 1..Len(chan') : frames'[chan'[i].seq].kind = "text"
        /\ (/\ Len(frames') = 2
            /\ frames'[1].kind = "bad"
            /\ frames'[2] = Frame("text", "tick", "")
            /\ chan' = <<>>
            /\ pc' = "select")
             => /\ appended' = <<[tag |-> "tick", seq |-> 2]>>
                /\ KindName(appended'[1].tag) = "TICK"
      ]_vars

\* the frames <<malformed, Tick>> were read, the reader still runs and the one
\* append is the Tick
C5_Witness ==
    /\ pc = "select"
    /\ reader = "running"
    /\ Len(frames) = 2
    /\ frames[1].kind = "bad"
    /\ frames[2] = Frame("text", "tick", "")
    /\ appended = <<[tag |-> "tick", seq |-> 2]>>
    /\ chan = <<>>

\* C6: a text frame that does not parse never makes an operation fail, neither
\* connect() during the handshake nor run().
C6_MalformedNeverFatal ==
    ~(pc = "match" /\ ret = "Err" /\ connErr = "parse")

\* C7 (as claimed): every run_daemon that ends after a shutdown request has
\* flushed, written daemon_stopped_at, read the counters and returned success.
C7_ShutdownAlwaysSucceeds ==
    (pc = "done" /\ shutdown)
      => /\ ledger.finalFlush = "ok"
         /\ "daemon_stopped_at" \in ledger.meta
         /\ ledger.counters
         /\ result = "ok"

\* C7 (amended): every run_daemon that ends after a shutdown request has called
\* flush(); daemon_stopped_at is written only after a successful flush, the
\* counters are read only after daemon_stopped_at is written, success is
\* returned exactly when all three were done, and a failed flush or set_meta
\* ends run_daemon with that error.
C7_ShutdownSequence ==
    /\ ("daemon_stopped_at" \in ledger.meta) => ledger.finalFlush = "ok"
    /\ ledger.counters => "daemon_stopped_at" \in ledger.meta
    /\ (pc \in {"stop_meta", "counters"}) => ledger.finalFlush = "ok"
    /\ (pc = "counters") => "daemon_stopped_at" \in ledger.meta
    /\ (result = "ok") => (pc = "done" /\ ledger.counters)
    /\ (pc = "done" /\ shutdown)
         => /\ ledger.finalFlush # "none"
            /\ (result = "ok") <=> ledger.counters
            /\ (result = "err")
                 <=> (ledger.finalFlush = "err" \/ "daemon_stopped_at" \notin ledger.meta)

\* run_daemon returned success after a shutdown, with flush, daemon_stopped_at
\* and counters done
C7_Witness ==
    /\ pc = "done"
    /\ shutdown
    /\ result = "ok"
    /\ ledger.finalFlush = "ok"
    /\ "daemon_stopped_at" \in ledger.meta
    /\ ledger.counters

StartupDone == "gateway_url" \in ledger.meta

\* C8: once startup has succeeded run_daemon is outside its reconnect loop only
\* with the shutdown flag set; a run_connection that returned Err or
\* Disconnected is followed by the backoff wait, and the wait, left without
\* shutdown, by the loop head and a new connection attempt; no result of
\* run_connection ends run_daemon with an error.
C8_LoopEndsOnlyByShutdown ==
    [][ /\ (pc' \in {"flush", "stop_meta", "counters"}) => shutdown'
        /\ (pc' = "done" /\ StartupDone') => (shutdown' /\ ledger'.finalFlush # "none")
        /\ (pc = "match" /\ ret \in {"Err", "Disconnected"})
             => (pc' \in {pc, "bk_poll"} /\ result' = "running")
        /\ (pc = "bk_after" /\ ~shutdown') => pc' \in {pc, "loop"}
        /\ (pc = "loop" /\ ~shutdown') => pc' \in {pc, "new"}
        /\ (pc \in BackoffPcs) => pc' \in (BackoffPcs \cup {"loop", "flush"})
      ]_vars

\* after a connection that streamed and ended and the wait that followed, a
\* new connection attempt starts without shutdown
C8_Witness ==
    /\ pc = "new"
    /\ reader = "finished"
    /\ ~shutdown
    /\ backoff = 2

\* C9: the reader task runs only while run_connection is in its select loop or
\* about to abort it: it is not running when run_connection has returned, so
\* neither during a later connect() nor during the shutdown flush; the abort
\* does not wait for the reader to end.
C9_ReaderCancelledBeforeReturn ==
    [][ /\ (pc' \notin {"select", "abort"}) => reader' # "running"
        /\ (pc = "abort" /\ pc' # pc) => (pc' = "match" /\ reader' \in {"aborted", "finished"})
        /\ (pc = "abort" /\ reader = "running" /\ pc' # pc) => reader' = "aborted"
      ]_vars

\* the reader was still running when the shutdown was seen, and is cancelled
\* when the supervisor is at the final flush
C9_Witness ==
    /\ pc = "flush"
    /\ reader = "aborted"
    /\ ret = "Signal"

Count(s, m) == Cardinality({i \in 1..Len(s) : s[i] = m})

\* connect() has returned Ok / Err to run_connection
ConnectOk == pc = "spawn"
ConnectErr == pc = "match" /\ ret = "Err"

\* C11 (as claimed): connect() returns a session id if and only if a Connected
\* message was received at a legal point of the handshake; so a connect() that
\* has received Connected there never fails.
C11_ConnectedIffSession ==
    /\ ConnectOk => sessionId \in SessionIds
    /\ ConnectErr => sessionId = ""

\* C11 (amended): connect() returns a session id exactly when a Connected message
\* was received as the first reply or as the reply after the challenge and the
\* Subscribe send that follows succeeded; it has then sent exactly one
\* Subscribe{agent_events, tool_calls, outputs}, as its last message and after
\* Connected was received, and the id returned is the sessionId received; a
\* connect() that fails has sent no Subscribe, and fails after Connected only
\* with the transport error of the Subscribe send.
C11_SubscribeOnSuccess ==
    /\ ConnectOk
         => /\ sessionId \in SessionIds
            /\ connId = sessionId
            /\ Count(sent, SubscribeMsg) = 1
            /\ sent[Len(sent)] = SubscribeMsg
    /\ (Count(sent, SubscribeMsg) > 0) => (ConnectOk /\ sessionId # "")
    /\ (sessionId # "")
         => /\ hsFrames >= (IF challenge = "" THEN 1 ELSE 2)
            /\ pc \in {"subscribe", "spawn", "match"}
    /\ (pc = "subscribe") => sessionId \in SessionIds
    /\ ConnectErr
         => /\ Count(sent, SubscribeMsg) = 0
            /\ connId = ""
            /\ (sessionId # "") => connErr = "transport"
    /\ SubscribeMsg.arg = <<"agent_events", "tool_calls", "outputs">>

\* connect() returned the session id s2 received after a challenge, with the
\* Subscribe as the last of its messages
C11_Witness ==
    /\ ConnectOk
    /\ challenge = "abc"
    /\ sessionId = "s2"
    /\ connId = "s2"
    /\ sent = <<ConnectMsg, SubscribeMsg>>

\* the error kind a caller can tell from the error connect() returns:
\* "Connection handshake timeout" / "Auth response timeout", "Connection error:
\* ..", "Unexpected response ..", and the errors of the transport and of serde
ErrorKind(e) ==
    CASE e \in {"timeout1", "timeout2"}       -> "HandshakeTimeout"
      [] e = "error"                          -> "AuthRejected"
      [] e \in {"unexpected1", "unexpected2"} -> "ProtocolViolation"
      [] OTHER                                -> "Other"

\* C12: a connect() that fails because a wait timed out returns
\* HandshakeTimeout, one that fails on an Error{code, message} message, as the
\* first reply or after the challenge, returns AuthRejected, and one that fails
\* on any other unexpected message returns ProtocolViolation; no two of these
\* causes give the same kind.
C12_DistinctErrorKinds ==
    ConnectErr
      => /\ (connErr \in {"timeout1", "timeout2"}) <=> (ErrorKind(connErr) = "HandshakeTimeout")
         /\ (hsLast.kind = "text" /\ hsLast.type = "error")
              <=> (ErrorKind(connErr) = "AuthRejected")
         /\ (hsLast.kind = "text" /\ hsLast.type \in {"tick", "challenge"}
               /\ connErr \notin {"timeout1", "timeout2"})
              <=> (ErrorKind(connErr) = "ProtocolViolation")

\* C13: every connection appends into the one Ledger opened at startup: the ids
\* the ledger has assigned since startup are strictly increasing, also from one
\* connection to the next, every id assigned on the current connection is above
\* all ids assigned before it was spawned, and every event the supervisor has
\* submitted carried the sentinel id 0, never an id of its own.
C13_SingleLedgerMonotonicIds ==
    /\ \A i, j \in 1..Len(ledger.ids) : (i < j) => ledger.ids[i] < ledger.ids[j]
    /\ \A i \in 1..Len(ledger.ids) :
         /\ ledger.ids[i] < ledger.nextId
         /\ ledger.ids[i] > SentinelEventId
    /\ (pc \in {"select", "abort"})
         => /\ eventsAtSpawn <= TotalEvents(ledger)
            /\ TotalEvents(ledger) - eventsAtSpawn <= Len(appended)
            /\ \A i \in 1..eventsAtSpawn : \A j \in (eventsAtSpawn + 1)..Len(ledger.ids) :
                 ledger.ids[i] < ledger.ids[j]
    /\ ledger.lastSubmitted = SentinelEventId
    /\ SentinelEventId = 0

\* a later connection has appended one event, which got the id 2 after the id 1
\* given on a connection before
C13_Witness ==
    /\ pc = "select"
    /\ eventsAtSpawn = 1
    /\ Len(appended) = 1
    /\ ledger.ids = <<1, 2>>

\* C14: a run_daemon whose configuration has no auth token fails at startup: it
\* gets no further than the token check, returns an error from there, has
\* written no metadata entry, made no connection attempt and sent nothing, and
\* never enters the reconnect loop or the shutdown sequence.
C14_NoTokenFailsAtStartup ==
    (~cfg.hasToken)
      => /\ pc \in {"open", "token", "done"}
         /\ (pc = "done") => result = "err"
         /\ ledger.meta = {}
         /\ ledger.finalFlush = "none"
         /\ attempts = 0
         /\ allFailed
         /\ sent = <<>>
         /\ ret = "none"
         /\ reader = "none"

\* the ledger was opened, the token is missing and run_daemon has failed
C14_Witness ==
    /\ ~cfg.hasToken
    /\ ledger.opened
    /\ pc = "done"
    /\ result = "err"
    /\ ledger.meta = {}

\* C15 (as claimed): in Streaming and in the backoff wait less than one second
\* passes between two consecutive reads of the shutdown flag.
C15_SubSecondPolling ==
    (pc \in ({"select"} \cup BackoffPcs)) => sinceCheck < 1000

\* C15 (amended): in the backoff wait at most 200 ms pass between two
\* consecutive reads of the shutdown flag; in Streaming the flag is read at
\* the ticks of an interval of one second, so up to one full second passes
\* between two reads, and never more.
C15_PollingPeriods ==
    /\ (pc \in BackoffPcs) => sinceCheck <= PollMs
    /\ PollMs < 1000
    /\ (pc \in {"select", "abort"}) => (sinceCheck <= ShutdownCheckMs /\ checkIn <= ShutdownCheckMs)
    /\ (pc = "select" /\ checkIn > 0) => sinceCheck = 0
    /\ ShutdownCheckMs = 1000

\* in Streaming the shutdown was raised after a read of the flag, and one full
\* second after that read the next one is only now due
C15_Witness ==
    /\ pc = "select"
    /\ shutdown
    /\ checkIn = 0
    /\ sinceCheck = 1000

\* C16: under fair scheduling a shutdown requested while the supervisor is
\* connecting, streaming or in a backoff wait is followed by the end of
\* run_daemon, also when the peer never answers; the shutdown sequence is never
\* left again, and no connection attempt starts while the flag is set.
C16_ShutdownTerminates ==
    /\ (shutdown /\ pc \in (ConnectPcs \cup {"select"} \cup BackoffPcs)) ~> (pc = "done")
    /\ [][ /\ (pc' = "new" /\ pc # "new") => ~shutdown
           /\ (shutdown /\ pc \in FinalPcs) => pc' \in FinalPcs
           /\ (pc = "done") => pc' = "done"
         ]_vars

\* C17: run() counts read errors in a row: a frame read successfully, of any
\* kind, restarts the count; run() fails on the sixth error in a row and on
\* no other error, and every error below that is followed by the 1s pause.
C17_ConsecutiveErrors ==
    [][ /\ (/\ Len(frames') = Len(frames) + 1
            /\ frames'[Len(frames')].kind # "eos"
            /\ reader' = "running")
             => consecutive_errors' = 0
        /\ (consecutive_errors' = consecutive_errors + 1)
             => IF consecutive_errors' > MaxConsecutiveErrors
                  THEN reader' = "finished"
                  ELSE reader' = "running" /\ rpc' = "pause"
      ]_vars

\* C18: once the inbound stream has ended, with or without a Close frame before,
\* run() is not in its read loop any more: it has returned.
C18_ReturnsAtEndOfStream ==
    (pc \in {"select", "abort"} /\ ~wsOpen) => reader # "running"

\* C19: a call of append_event or of the periodic flush, failed or not, leaves
\* the supervisor in Streaming with the same reader task, the same channel
\* (less the message taken), the same backoff and no result; Streaming is left
\* only by a closed and empty channel or by the shutdown flag, never by the
\* ledger; and the backoff does not change during Streaming.
C19_StorageFailureKeepsStreaming ==
    [][ /\ (Len(appended') = Len(appended) + 1 \/ (pc = "select" /\ ledger' # ledger))
             => /\ pc' = "select"
                /\ reader' = reader
                /\ backoff' = backoff
                /\ <<ret', result', arm'>> = <<ret, result, arm>>
                /\ (chan' = chan) \/ (chan # <<>> /\ chan' = Tail(chan))
        /\ (pc = "select" /\ pc' # "select")
             => /\ pc' = "abort"
                /\ ledger' = ledger
                /\ \/ ret' = "Disconnected" /\ chan = <<>> /\ TxDropped
                   \/ ret' = "Signal" /\ shutdown
        /\ (pc \in {"select", "abort"}) => backoff' = backoff
      ]_vars

\* two append_event calls in a row have failed, with room in the ledger, and the
\* supervisor is still in Streaming with the reader running
C19_Witness ==
    /\ pc = "select"
    /\ reader = "running"
    /\ Len(appended) = 2
    /\ eventsAtSpawn = 0
    /\ TotalEvents(ledger) = 0
    /\ backoff = 4

\* the messages the reader has handed or is handing over: appended, in the
\* channel, or held by the suspended send
HandedOver ==
    {appended[i].seq : i \in 1..Len(appended)}
      \cup {chan[i].seq : i \in 1..Len(chan)}
      \cup (IF rpc = "sending" THEN {pendingMsg.seq} ELSE {})

\* C20: the channel never holds more than its capacity; while run_connection
\* holds the receiver every valid message read is appended, in the channel or
\* held by a suspended send; the reader suspends on the send exactly when the
\* channel is full, reads no frame while suspended, and resumes by putting the
\* held message into the channel once it has room.
C20_Backpressure ==
    [][ /\ Len(chan') <= ChannelCapacity
        /\ (pc' \in {"select", "abort"})
             => \A i \in 1..Len(frames') : (frames'[i].kind = "text") => i \in HandedOver'
        /\ (rpc' = "sending" /\ rpc # "sending")
             => (Len(chan) = ChannelCapacity /\ chan' = chan /\ reader' = "running")
        /\ (rpc = "sending" /\ pc' # "match")
             => /\ frames' = frames
                /\ (rpc' = "sending") => pendingMsg' = pendingMsg
                /\ (rpc' # "sending" /\ reader' = "running")
                     => (Len(chan) < ChannelCapacity /\ chan' = Append(chan, pendingMsg))
      ]_vars

\* the channel is full and the reader is suspended on the send of the next
\* valid message, while the supervisor is in Streaming
C20_Witness ==
    /\ pc = "select"
    /\ reader = "running"
    /\ rpc = "sending"
    /\ Len(chan) = ChannelCapacity
    /\ pendingMsg.seq = Len(frames)

\* C21: run_connection decides on Disconnected only when the reader has ended
\* and the channel is empty: every valid message the reader has read has by
\* then been taken out and passed to append_event, none is in the channel or
\* in a suspended send, and so none is left when run_connection returns.
C21_DrainedBeforeDisconnected ==
    [][ /\ (ret' = "Disconnected" /\ ret # "Disconnected")
             => /\ pc = "select"
                /\ reader = "finished"
                /\ chan = <<>>
                /\ rpc # "sending"
                /\ appended = Received
                /\ appended' = appended
        /\ (pc' = "abort" /\ ret' = "Disconnected")
             => (chan' = <<>> /\ Len(appended') = Len(Received'))
      ]_vars

\* the reader forwarded two messages and ended without a shutdown; both were
\* appended before run_connection decided on Disconnected
C21_Witness ==
    /\ pc = "abort"
    /\ ret = "Disconnected"
    /\ ~shutdown
    /\ reader = "finished"
    /\ Len(Received) = 2
    /\ appended = Received
    /\ chan = <<>>

\* C22: in every fair execution an event appended and not yet flushed is
\* followed by a flush: the flush of the Streaming timer or the shutdown
\* flush, also when the connection ends right after the append, every later
\* attempt fails and no shutdown is requested.
C22_AppendedEventuallyFlushed ==
    ledger.dirty ~> (~ledger.dirty \/ ledger.finalFlush # "none")

====
